---- MODULE Spec2Model ----
(***************************************************************************)
(* A model of snaprs (src/main.rs): the filter-and-aggregate pass          *)
(* analyze_messages over a ChatData, the Statistics accumulator with its   *)
(* time-range tracker, and the date-range part of print_statistics.        *)
(*                                                                         *)
(* Rust Strings that the code only compares for equality (From, Media      *)
(* Type, the user and media_type options, conversation keys) are TLA+      *)
(* strings.  Strings whose characters the code looks at (Created,          *)
(* from_date, to_date) are sequences of byte values, so that str's         *)
(* ordering, split_whitespace and the timestamp format are computed.       *)
(* Option<T> is a sequence of length 0 (None) or 1 (Some).                 *)
(***************************************************************************)
EXTENDS Integers, Sequences, FiniteSets, TLC

VARIABLES
    opt,        \* the Opt built by main, read-only afterwards
    data,       \* the ChatData: conversation key -> Vec<Message>, read-only
    zone,       \* the offset chrono's parser holds after the %Z item
    order,      \* conversations the outer loop has taken so far, in order
    idx,        \* position of the inner loop in the conversation Last(order)
    stats,      \* the Statistics accumulator
    pc,         \* "scan", "returned", "panicked", "printed"
    report      \* what print_statistics printed

vars == <<opt, data, zone, order, idx, stats, pc, report>>

\* Largest number of messages in a ChatData of the model.
MaxMsgs == 2

-----------------------------------------------------------------------------
(* Option and string helpers *)

None == <<>>
Some(x) == <<x>>
IsSome(o) == o # <<>>
Unwrap(o) == o[1]

Last(s) == s[Len(s)]
Range(s) == {s[i] : i \in DOMAIN s}

\* char::is_whitespace on the ASCII range
IsWhitespace(c) == c \in {9, 10, 11, 12, 13, 32}

\* a < b for str: lexicographic on bytes
StrLess(a, b) ==
    \E i \in 1..Len(b) :
        /\ i <= Len(a) + 1
        /\ \A j \in 1..(i - 1) : a[j] = b[j]
        /\ (i = Len(a) + 1 \/ a[i] < b[i])

\* two decimal digits / four decimal digits as bytes
Fmt2(n) == <<48 + (n \div 10), 48 + (n % 10)>>
Fmt4(n) == Fmt2(n \div 100) \o Fmt2(n % 100)

\* "YYYY-MM-DD"
DateStr(y, m, d) == Fmt4(y) \o <<45>> \o Fmt2(m) \o <<45>> \o Fmt2(d)
\* "YYYY-MM-DD HH:MM:SS UTC"
StampStr(y, m, d, h, mi, s) ==
    DateStr(y, m, d) \o <<32>> \o Fmt2(h) \o <<58>> \o Fmt2(mi) \o <<58>>
        \o Fmt2(s) \o <<32, 85, 84, 67>>

\* "not-a-date"
NotADate == <<110, 111, 116, 45, 97, 45, 100, 97, 116, 101>>

-----------------------------------------------------------------------------
(* msg.Created.split_whitespace().next() *)

\* a slip in SplitWhitespaceNext: the date is taken as what precedes a
\* delimiter, so that a value without whitespace has none
SplitWhitespaceNext_NeedsDelimiter(s) ==
    LET stops == {i \in 1..Len(s) : IsWhitespace(s[i])}
    IN  IF stops = {} THEN None
        ELSE Some(SubSeq(s, 1, (CHOOSE i \in stops : \A j \in stops : i <= j) - 1))

SplitWhitespaceNext(s) ==
    LET starts == {i \in 1..Len(s) : ~IsWhitespace(s[i])}
    IN  IF starts = {} THEN None
        ELSE LET b == CHOOSE i \in starts : \A j \in starts : i <= j
                 stops == {i \in b..Len(s) : IsWhitespace(s[i])}
                 e == IF stops = {} THEN Len(s)
                      ELSE (CHOOSE i \in stops : \A j \in stops : i <= j) - 1
             IN  Some(SubSeq(s, b, e))

-----------------------------------------------------------------------------
(* DateTime::parse_from_str(created, "%Y-%m-%d %H:%M:%S %Z") followed by   *)
(* with_timezone(&Utc).  A DateTime<Utc> is its number of seconds since    *)
(* 1970-01-01 00:00:00 UTC.  The result is None for Err and Some(t) for    *)
(* Ok.  The %Z item consumes the zone name without reading an offset from  *)
(* it, and the parser needs an offset to build a DateTime: z is the offset *)
(* (in seconds) the chrono of the build supplies for it, None if it        *)
(* supplies none, in which case every parse ends in Err(NotEnough).        *)

IsDigit(c) == c \in 48..57
Num2(s, i) == (s[i] - 48) * 10 + (s[i + 1] - 48)

IsLeap(y) == (y % 4 = 0 /\ y % 100 # 0) \/ y % 400 = 0
DaysInMonth(y, m) ==
    IF m = 2 THEN (IF IsLeap(y) THEN 29 ELSE 28)
    ELSE IF m \in {4, 6, 9, 11} THEN 30 ELSE 31

\* days from 1970-01-01 to the civil date y-m-d (proleptic Gregorian)
DaysFromCivil(y, m, d) ==
    LET yy == IF m <= 2 THEN y - 1 ELSE y
        era == yy \div 400
        yoe == yy - era * 400
        mp == IF m > 2 THEN m - 3 ELSE m + 9
        doy == (153 * mp + 2) \div 5 + d - 1
        doe == yoe * 365 + yoe \div 4 - yoe \div 100 + doy
    IN  era * 146097 + doe - 719468

ParseFromStr(s, z) ==
    IF /\ Len(s) >= 21
       /\ \A i \in {1, 2, 3, 4, 6, 7, 9, 10, 12, 13, 15, 16, 18, 19} : IsDigit(s[i])
       /\ s[5] = 45 /\ s[8] = 45 /\ s[14] = 58 /\ s[17] = 58
       /\ IsWhitespace(s[11]) /\ IsWhitespace(s[20])
       /\ \A i \in 21..Len(s) : ~IsWhitespace(s[i])
    THEN LET y == Num2(s, 1) * 100 + Num2(s, 3)
             m == Num2(s, 6)
             d == Num2(s, 9)
             h == Num2(s, 12)
             mi == Num2(s, 15)
             sec == Num2(s, 18)
         IN  IF /\ m \in 1..12 /\ d \in 1..DaysInMonth(y, m)
                /\ h <= 23 /\ mi <= 59 /\ sec <= 59
                /\ IsSome(z)
             THEN Some(DaysFromCivil(y, m, d) * 86400 + h * 3600 + mi * 60 + sec
                       - Unwrap(z))
             ELSE None
    ELSE None

-----------------------------------------------------------------------------
(* Statistics *)

\* HashMap::new()
EmptyMap == [k \in {} |-> 0]

\* Statistics::new
NewStatistics ==
    [total_messages |-> 0, messages_sent |-> 0, messages_received |-> 0,
     saved_messages |-> 0,
     media_type_counts |-> EmptyMap,
     users_interaction_counts |-> EmptyMap,
     earliest_message |-> None, latest_message |-> None]

\* a slip in update_time_range: latest_message follows the last message
\* parsed
update_time_range_LastWins(st, created, z) ==
    LET r == ParseFromStr(created, z)
    IN  IF ~IsSome(r) THEN st
        ELSE LET utc_dt == Unwrap(r)
                 lo == IF st.earliest_message = None
                          \/ utc_dt < Unwrap(st.earliest_message)
                       THEN Some(utc_dt) ELSE st.earliest_message
             IN  [st EXCEPT !.earliest_message = lo,
                            !.latest_message = Some(utc_dt)]

\* a slip in update_time_range: the first message parsed seeds both bounds
\* and the later ones only raise latest_message
update_time_range_NoLowering(st, created, z) ==
    LET r == ParseFromStr(created, z)
    IN  IF ~IsSome(r) THEN st
        ELSE LET utc_dt == Unwrap(r)
             IN  IF st.earliest_message = None /\ st.latest_message = None
                 THEN [st EXCEPT !.earliest_message = Some(utc_dt),
                                 !.latest_message = Some(utc_dt)]
                 ELSE [st EXCEPT !.latest_message =
                                    IF utc_dt > Unwrap(@) THEN Some(utc_dt) ELSE @]

\* Statistics::update_time_range
update_time_range(st, created, z) ==
    LET r == ParseFromStr(created, z)
    IN  IF ~IsSome(r) THEN st
        ELSE LET utc_dt == Unwrap(r)
             IN  IF st.earliest_message = None /\ st.latest_message = None
                 THEN [st EXCEPT !.earliest_message = Some(utc_dt),
                                 !.latest_message = Some(utc_dt)]
                 ELSE LET lo == IF st.earliest_message = None
                                   \/ utc_dt < Unwrap(st.earliest_message)
                                THEN Some(utc_dt) ELSE st.earliest_message
                          hi == IF st.latest_message = None
                                   \/ utc_dt > Unwrap(st.latest_message)
                                THEN Some(utc_dt) ELSE st.latest_message
                      IN  [st EXCEPT !.earliest_message = lo,
                                     !.latest_message = hi]

\* a slip in BumpCount: the entry is inserted, an existing one is not bumped
BumpCount_InsertOnly(map, k) ==
    IF k \in DOMAIN map THEN map ELSE map @@ (k :> 1)

\* *map.entry(k).or_insert(0) += 1
BumpCount(map, k) ==
    IF k \in DOMAIN map THEN [map EXCEPT ![k] = @ + 1] ELSE map @@ (k :> 1)

\* the (sent, received) pair of map.entry(k).or_insert((0, 0)), one side bumped
BumpUser(map, k, is_sender) ==
    LET old == IF k \in DOMAIN map THEN map[k] ELSE <<0, 0>>
        new == IF is_sender THEN <<old[1], old[2] + 1>> ELSE <<old[1] + 1, old[2]>>
    IN  IF k \in DOMAIN map THEN [map EXCEPT ![k] = new] ELSE map @@ (k :> new)

\* a slip in Fold: the polarity of IsSender put right in the two counters
\* only, not in the per-user pair
Fold_CountersOnly(st, msg, z) ==
    LET counted ==
            [st EXCEPT
                !.total_messages = @ + 1,
                !.messages_received = IF msg.IsSender THEN @ ELSE @ + 1,
                !.messages_sent = IF msg.IsSender THEN @ + 1 ELSE @,
                !.saved_messages = IF msg.IsSaved THEN @ + 1 ELSE @,
                !.media_type_counts = BumpCount(@, msg.media_type),
                !.users_interaction_counts = BumpUser(@, msg.From, msg.IsSender)]
    IN  update_time_range(counted, msg.Created, z)

\* the body of the loop after the filters (main.rs 130-152)
Fold(st, msg, z) ==
    LET counted ==
            [st EXCEPT
                !.total_messages = @ + 1,
                !.messages_received = IF msg.IsSender THEN @ + 1 ELSE @,
                !.messages_sent = IF msg.IsSender THEN @ ELSE @ + 1,
                !.saved_messages = IF msg.IsSaved THEN @ + 1 ELSE @,
                !.media_type_counts = BumpCount(@, msg.media_type),
                !.users_interaction_counts = BumpUser(@, msg.From, msg.IsSender)]
    IN  update_time_range(counted, msg.Created, z)

-----------------------------------------------------------------------------
(* The filters of analyze_messages, in the order of the code.  Each is     *)
(* TRUE when the clause executes `continue`.                               *)

\* a slip in CorrespondentExcludes: the filter the option's name suggests
CorrespondentExcludes_OtherSenders(msg, user) == msg.From # user

CorrespondentExcludes(msg, user) ==
    (~msg.IsSender /\ msg.From # user) /\ (msg.IsSender /\ msg.From = user)

\* a slip in FromDateExcludes: the bound made exclusive
FromDateExcludes_Exclusive(token, from_date) == ~StrLess(from_date, token)

FromDateExcludes(token, from_date) == StrLess(token, from_date)

ToDateExcludes(token, to_date) == StrLess(to_date, token)

\* a slip in SavedExcludes: the option is read, the message's flag is not
SavedExcludes_FlagIgnored(msg, saved_only) == FALSE

SavedExcludes(msg, saved_only) == saved_only /\ ~msg.IsSaved

\* a slip in MediaTypeExcludes: the comparison inverted
MediaTypeExcludes_Inverted(msg, media_type) == msg.media_type = media_type

MediaTypeExcludes(msg, media_type) == msg.media_type # media_type

\* what one iteration of the inner loop does with msg: "panic" (unwrap on
\* None), "skip" (continue) or "fold"
Verdict(msg, o) ==
    LET token == SplitWhitespaceNext(msg.Created)
    IN  IF IsSome(o.user) /\ CorrespondentExcludes(msg, Unwrap(o.user)) THEN "skip"
        ELSE IF IsSome(o.from_date) /\ ~IsSome(token) THEN "panic"
        ELSE IF IsSome(o.from_date)
                /\ FromDateExcludes(Unwrap(token), Unwrap(o.from_date)) THEN "skip"
        ELSE IF IsSome(o.to_date) /\ ~IsSome(token) THEN "panic"
        ELSE IF IsSome(o.to_date)
                /\ ToDateExcludes(Unwrap(token), Unwrap(o.to_date)) THEN "skip"
        ELSE IF SavedExcludes(msg, o.saved_only) THEN "skip"
        ELSE IF IsSome(o.media_type)
                /\ MediaTypeExcludes(msg, Unwrap(o.media_type)) THEN "skip"
        ELSE "fold"

\* analyze_messages over a flattened scan: None if it panics, else Some(stats)
RECURSIVE AnalyzeFrom(_, _, _, _)
AnalyzeFrom(st, msgs, o, z) ==
    IF msgs = <<>> THEN Some(st)
    ELSE LET v == Verdict(Head(msgs), o)
         IN  IF v = "panic" THEN None
             ELSE AnalyzeFrom(IF v = "fold" THEN Fold(st, Head(msgs), z) ELSE st,
                              Tail(msgs), o, z)

Analyze(msgs, o, z) == AnalyzeFrom(NewStatistics, msgs, o, z)

-----------------------------------------------------------------------------
(* print_statistics: the counters, the date-range block and the breakdowns *)

\* a slip in NumDays: the difference of the two calendar dates
NumDays_CalendarDates(earliest, latest) ==
    (latest \div 86400) - (earliest \div 86400)

\* Duration::num_days of latest.signed_duration_since(earliest)
NumDays(earliest, latest) == (latest - earliest) \div 86400

\* {:.2} of total as f64 / days as f64, in hundredths
AveragePerDay(total, days) == (200 * total + days) \div (2 * days)

Report(st, o) ==
    LET range ==
            IF IsSome(st.earliest_message) /\ IsSome(st.latest_message)
            THEN LET days == NumDays(Unwrap(st.earliest_message),
                                     Unwrap(st.latest_message))
                 IN  IF days > 0
                     THEN Some([days |-> days,
                                average |-> AveragePerDay(st.total_messages, days)])
                     ELSE None
            ELSE None
    IN  [total |-> st.total_messages, sent |-> st.messages_sent,
         received |-> st.messages_received, saved |-> st.saved_messages,
         date_range |-> range,
         breakdown |-> IF o.detailed
                       THEN Some(<<st.media_type_counts, st.users_interaction_counts>>)
                       ELSE None]

-----------------------------------------------------------------------------
(* The inputs of the model *)

Users == {"Alice", "Bob"}
MediaTypes == {"TEXT", "MEDIA"}
ConvA == "Alice & Bob"
ConvB == "Team"

\* Created values: four timestamps in the format of the export, and values
\* that are not in it
Jan1Morning == StampStr(2021, 1, 1, 10, 0, 0)
Jan1Night == StampStr(2021, 1, 1, 23, 0, 0)
Jan3Early == StampStr(2021, 1, 3, 1, 0, 0)
Jan3Morning == StampStr(2021, 1, 3, 10, 0, 0)
EmptyStr == <<>>
Blank == <<32>>
LeadingSpace == <<32>> \o DateStr(2021, 1, 2)

SeqsUpTo(S, n) == UNION {[1..k -> S] : k \in 0..n}

\* every ChatData over the two conversation keys holding at most MaxMsgs
\* messages drawn from M: no key, one key, or both keys
ChatDatas(M) ==
    LET flat == SeqsUpTo(M, MaxMsgs)
    IN  {<<>>}
        \cup {(k :> f) : k \in {ConvA, ConvB}, f \in flat}
        \cup UNION {{(ConvA :> SubSeq(f, 1, cut)) @@ (ConvB :> SubSeq(f, cut + 1, Len(f)))
                        : cut \in 0..Len(f)} : f \in flat}

Messages(froms, medias, createds, senders, saveds) ==
    [From : froms, media_type : medias, Created : createds,
     IsSender : senders, IsSaved : saveds]

Opts(users, froms, tos, detaileds, medias) ==
    [user : users, from_date : froms, to_date : tos, detailed : detaileds,
     saved_only : BOOLEAN, media_type : medias]

InitWith(M, O, Z) ==
    /\ opt \in O
    /\ data \in ChatDatas(M)
    /\ zone \in Z
    /\ order = <<>>
    /\ idx = 1
    /\ stats = NewStatistics
    /\ pc = "scan"
    /\ report = None

-----------------------------------------------------------------------------
(* The steps of main after deserialization: the two loops of               *)
(* analyze_messages, its return, and print_statistics.                     *)

\* the inner loop has no message left (or no conversation was taken yet)
InnerDone == IF order = <<>> THEN TRUE ELSE idx > Len(data[Last(order)])

\* the messages the scan has gone through so far, in scan order
RECURSIVE FlattenConvs(_, _)
FlattenConvs(d, convs) ==
    IF convs = <<>> THEN <<>>
    ELSE d[Head(convs)] \o FlattenConvs(d, Tail(convs))

Scanned ==
    IF order = <<>> THEN <<>>
    ELSE FlattenConvs(data, SubSeq(order, 1, Len(order) - 1))
            \o SubSeq(data[Last(order)], 1, idx - 1)

\* data.0.iter() yields the next conversation: any key not yet visited
NextConversation(c) ==
    /\ pc = "scan"
    /\ InnerDone
    /\ c \in DOMAIN data \ Range(order)
    /\ order' = Append(order, c)
    /\ idx' = 1
    /\ UNCHANGED <<opt, data, zone, stats, pc, report>>

\* one iteration of `for msg in messages`
ScanMessage ==
    /\ pc = "scan"
    /\ ~InnerDone
    /\ LET msg == data[Last(order)][idx]
           v == Verdict(msg, opt)
       IN  /\ pc' = IF v = "panic" THEN "panicked" ELSE "scan"
           /\ stats' = IF v = "fold" THEN Fold(stats, msg, zone) ELSE stats
           /\ idx' = IF v = "panic" THEN idx ELSE idx + 1
    /\ UNCHANGED <<opt, data, zone, order, report>>

\* both loops are exhausted: analyze_messages returns stats
Return ==
    /\ pc = "scan"
    /\ InnerDone
    /\ DOMAIN data \subseteq Range(order)
    /\ pc' = "returned"
    /\ UNCHANGED <<opt, data, zone, order, idx, stats, report>>

PrintStatistics ==
    /\ pc = "returned"
    /\ report' = Some(Report(stats, opt))
    /\ pc' = "printed"
    /\ UNCHANGED <<opt, data, zone, order, idx, stats>>

Next ==
    \/ \E c \in {ConvA, ConvB} : NextConversation(c)
    \/ ScanMessage
    \/ Return
    \/ PrintStatistics

\* chrono's parser after %Z: no offset, or UTC
Zones == {None, Some(0)}

Jan2 == DateStr(2021, 1, 2)
Jan3 == DateStr(2021, 1, 3)

\* messages differing in sender, media type and direction; user, saved_only
\* and media_type filters set or unset
Init ==
    InitWith(Messages(Users, MediaTypes, {Jan1Morning}, BOOLEAN, {TRUE}),
             Opts({None, Some("Alice")}, {None}, {None}, {FALSE}, {None, Some("TEXT")}),
             Zones)

Spec == Init /\ [][Next]_vars

\* messages differing in sender, direction and saved flag; every filter set
\* or unset
InitFilters ==
    InitWith(Messages(Users, {"TEXT"}, {Jan1Morning}, BOOLEAN, BOOLEAN),
             Opts({None, Some("Alice")}, {None, Some(Jan2)}, {None}, {FALSE},
                  {None, Some("TEXT")}),
             Zones)

SpecFilters == InitFilters /\ [][Next]_vars

\* messages differing in Created, date bounds on and around their dates
InitDates ==
    InitWith(Messages({"Alice"}, {"TEXT"},
                      {Jan1Morning, Jan3Morning, LeadingSpace, NotADate, Blank, EmptyStr},
                      {FALSE}, {TRUE}),
             Opts({None}, {None, Some(Jan2), Some(Jan3)}, {None, Some(Jan2), Some(Jan3)},
                  {FALSE}, {None}),
             Zones)

SpecDates == InitDates /\ [][Next]_vars

\* messages differing in timestamp and saved flag, no date bound
InitTimes ==
    InitWith(Messages({"Alice"}, {"TEXT"},
                      {Jan1Morning, Jan1Night, Jan3Morning, NotADate},
                      {FALSE}, BOOLEAN),
             Opts({None}, {None}, {None}, BOOLEAN, {None}),
             Zones)

SpecTimes == InitTimes /\ [][Next]_vars

\* messages differing in sender and Created, with and without a date bound
InitOrder ==
    InitWith(Messages(Users, {"TEXT"}, {Jan1Night, Jan3Morning, NotADate, Blank},
                      {FALSE}, {TRUE}),
             Opts({None}, {None, Some(Jan2)}, {None}, {FALSE}, {None}),
             Zones)

SpecOrder == InitOrder /\ [][Next]_vars

-----------------------------------------------------------------------------
(* What the claims speak of *)

Finished == pc \in {"returned", "printed"}

\* the result of analyze_messages: None if it panicked
Outcome == IF pc = "panicked" THEN None ELSE Some(stats)

\* every message of data, conversation ConvA before ConvB
AllMessages ==
    (IF ConvA \in DOMAIN data THEN data[ConvA] ELSE <<>>)
        \o (IF ConvB \in DOMAIN data THEN data[ConvB] ELSE <<>>)

\* the scanned messages the filters let through
Accepted == SelectSeq(Scanned, LAMBDA m : Verdict(m, opt) = "fold")

Count(s, P(_)) == Cardinality({i \in DOMAIN s : P(s[i])})

RECURSIVE SumCounts(_)
SumCounts(map) ==
    IF DOMAIN map = {} THEN 0
    ELSE LET k == CHOOSE x \in DOMAIN map : TRUE
         IN  map[k] + SumCounts([x \in DOMAIN map \ {k} |-> map[x]])

RECURSIVE SumSide(_, _)
SumSide(map, side) ==
    IF DOMAIN map = {} THEN 0
    ELSE LET k == CHOOSE x \in DOMAIN map : TRUE
         IN  map[k][side] + SumSide([x \in DOMAIN map \ {k} |-> map[x]], side)

\* C1: in every state of the accumulator, total_messages = messages_sent +
\* messages_received = the sum of media_type_counts = the sum over the users
\* of sent + received.
C1_TotalsAgree ==
    /\ stats.total_messages = stats.messages_sent + stats.messages_received
    /\ stats.total_messages = SumCounts(stats.media_type_counts)
    /\ stats.total_messages
         = SumSide(stats.users_interaction_counts, 1)
           + SumSide(stats.users_interaction_counts, 2)

\* two messages folded, both of one media type and from one user, one in
\* each direction
C1_Witness ==
    /\ pc = "scan"
    /\ stats.total_messages = 2
    /\ stats.media_type_counts = ("TEXT" :> 2)
    /\ stats.users_interaction_counts = ("Bob" :> <<1, 1>>)

\* C2: at return, messages_received counts the accepted messages with
\* IsSender true and messages_sent those with IsSender false, and the pair of
\* every sender u is (accepted from u with IsSender false, accepted from u with
\* IsSender true); the per-user components sum to the two counters.
C2_InvertedPolarity ==
    Finished =>
        /\ stats.messages_received = Count(Accepted, LAMBDA m : m.IsSender)
        /\ stats.messages_sent = Count(Accepted, LAMBDA m : ~m.IsSender)
        /\ DOMAIN stats.users_interaction_counts = {m.From : m \in Range(Accepted)}
        /\ \A u \in DOMAIN stats.users_interaction_counts :
              stats.users_interaction_counts[u]
                = <<Count(Accepted, LAMBDA m : m.From = u /\ ~m.IsSender),
                    Count(Accepted, LAMBDA m : m.From = u /\ m.IsSender)>>
        /\ SumSide(stats.users_interaction_counts, 1) = stats.messages_sent
        /\ SumSide(stats.users_interaction_counts, 2) = stats.messages_received

\* the scenario of the claim: one unfiltered message with IsSender false
C2_Witness ==
    /\ pc = "returned"
    /\ Len(Scanned) = 1 /\ ~Scanned[1].IsSender /\ Scanned[1].From = "Bob"
    /\ stats.messages_sent = 1 /\ stats.messages_received = 0
    /\ stats.users_interaction_counts = ("Bob" :> <<1, 0>>)

\* C6: with the media_type filter set to X, media_type_counts has no key
\* other than X: it is empty or exactly {X: total_messages}.
C6_OnlyFilteredMediaType ==
    IsSome(opt.media_type) =>
        /\ DOMAIN stats.media_type_counts \subseteq {Unwrap(opt.media_type)}
        /\ \/ DOMAIN stats.media_type_counts = {}
           \/ stats.media_type_counts
                = (Unwrap(opt.media_type) :> stats.total_messages)

\* a MEDIA message was scanned and left out, a TEXT message was counted
C6_Witness ==
    /\ pc = "returned"
    /\ opt.media_type = Some("TEXT")
    /\ \E i \in DOMAIN Scanned : Scanned[i].media_type = "MEDIA"
    /\ stats.media_type_counts = ("TEXT" :> 1)

\* C3: with user = U set, analyze returns exactly what it returns with user
\* unset, whatever the ChatData and the other filters.
C3_UserFilterExcludesNothing ==
    (pc # "scan" /\ IsSome(opt.user)) =>
        LET unset == [opt EXCEPT !.user = None]
        IN  IF pc = "panicked" THEN Analyze(AllMessages, unset, zone) = None
            ELSE Analyze(Scanned, unset, zone) = Some(stats)

\* user = Alice, and a message from Bob and a message Alice received were
\* both counted
C3_Witness ==
    /\ pc = "returned"
    /\ opt.user = Some("Alice")
    /\ \E i \in DOMAIN Scanned : Scanned[i].From = "Bob" /\ ~Scanned[i].IsSender
    /\ \E i \in DOMAIN Scanned : Scanned[i].From = "Alice" /\ Scanned[i].IsSender
    /\ stats.total_messages = 2

\* C5: with saved_only, total_messages is no larger than in the run without
\* it on the same input, every counted message has IsSaved true, and
\* saved_messages = total_messages.
C5_SavedOnly ==
    (Finished /\ opt.saved_only) =>
        LET without == Analyze(Scanned, [opt EXCEPT !.saved_only = FALSE], zone)
        IN  /\ IsSome(without)
            /\ stats.total_messages <= Unwrap(without).total_messages
            /\ \A i \in DOMAIN Accepted : Accepted[i].IsSaved
            /\ stats.total_messages = Len(Accepted)
            /\ stats.saved_messages = stats.total_messages

\* the scenario of the spec: a saved and an unsaved message, one counted
C5_Witness ==
    /\ pc = "returned"
    /\ opt.saved_only
    /\ Len(Scanned) = 2 /\ Scanned[1].IsSaved /\ ~Scanned[2].IsSaved
    /\ stats.total_messages = 1 /\ stats.saved_messages = 1
    /\ Unwrap(Analyze(Scanned, [opt EXCEPT !.saved_only = FALSE], zone)).total_messages = 2

DateBoundSet == IsSome(opt.from_date) \/ IsSome(opt.to_date)

\* the characters of s before its first space (all of s if it has none)
RECURSIVE BeforeFirstSpace(_)
BeforeFirstSpace(s) ==
    IF s = <<>> \/ Head(s) = 32 THEN <<>>
    ELSE <<Head(s)>> \o BeforeFirstSpace(Tail(s))

\* the first whitespace-delimited word of s (empty if it has none)
RECURSIVE FirstWord(_)
FirstWord(s) ==
    IF s = <<>> THEN <<>>
    ELSE IF IsWhitespace(Head(s)) THEN FirstWord(Tail(s))
    ELSE LET rest == Tail(s)
         IN  IF rest = <<>> \/ IsWhitespace(Head(rest)) THEN <<Head(s)>>
             ELSE <<Head(s)>> \o FirstWord(rest)

\* d is within the bounds that are set, both inclusive, under str ordering
WithinBounds(d) ==
    /\ IsSome(opt.from_date) => ~StrLess(d, Unwrap(opt.from_date))
    /\ IsSome(opt.to_date) => ~StrLess(Unwrap(opt.to_date), d)

\* the run without date bounds over the messages whose date portion, as
\* Portion gives it, is within the bounds
WithoutDateBounds(Portion(_)) ==
    Analyze(SelectSeq(Scanned, LAMBDA m : WithinBounds(Portion(m.Created))),
            [opt EXCEPT !.from_date = None, !.to_date = None], zone)

\* C4 as stated: a message passes the date clauses iff the characters of
\* Created before the first space are within the bounds, and an excluded
\* message contributes to nothing.
C4_Original ==
    Finished => Some(stats) = WithoutDateBounds(BeforeFirstSpace)

\* C4, amended: a message passes the date clauses iff the first
\* whitespace-delimited word of Created is within the bounds (inclusive,
\* under string ordering), and an excluded message contributes to no counter
\* and no time bound.
C4_DateBoundsInclusive ==
    Finished => Some(stats) = WithoutDateBounds(FirstWord)

\* both bounds are 2021-01-03: the message of that day is kept, the message
\* of 2021-01-01 is left out
C4_Witness ==
    /\ pc = "returned"
    /\ opt.from_date = Some(Jan3) /\ opt.to_date = Some(Jan3)
    /\ Len(Scanned) = 2
    /\ Scanned[1].Created = Jan1Morning /\ Scanned[2].Created = Jan3Morning
    /\ stats.total_messages = 1
    /\ stats.earliest_message = ParseFromStr(Jan3Morning, zone)

\* Created has no whitespace / has a date portion followed by whitespace
NoWhitespace(s) == \A j \in DOMAIN s : ~IsWhitespace(s[j])
HasDatePrefix(s) ==
    /\ s # <<>> /\ ~IsWhitespace(s[1])
    /\ \E j \in DOMAIN s : IsWhitespace(s[j])

\* C9 as stated: with a date bound set, a Created value without whitespace
\* makes analyze fail; with no date bound, or with every Created value
\* having a space-delimited date prefix, analyze returns.
C9_Original ==
    pc # "scan" =>
        /\ (DateBoundSet
            /\ \E i \in DOMAIN AllMessages : NoWhitespace(AllMessages[i].Created))
              => pc = "panicked"
        /\ (~DateBoundSet
            \/ \A i \in DOMAIN AllMessages : HasDatePrefix(AllMessages[i].Created))
              => pc # "panicked"

\* C9, amended: analyze fails exactly when a date bound is set and some
\* Created value is empty or holds only whitespace; in every other case it
\* returns a Statistics, whether or not the timestamps parse.
C9_PanicsOnBlankCreated ==
    pc # "scan" =>
        (pc = "panicked"
            <=> (DateBoundSet
                 /\ \E i \in DOMAIN AllMessages :
                        \A j \in DOMAIN AllMessages[i].Created :
                            IsWhitespace(AllMessages[i].Created[j])))

\* with a bound set, "not-a-date" went through and a blank Created stopped
\* the scan
C9_Witness ==
    /\ pc = "panicked"
    /\ DateBoundSet
    /\ Len(Scanned) = 1 /\ Scanned[1].Created = NotADate
    /\ data[Last(order)][idx].Created = Blank

\* the UTC timestamps of the accepted messages whose Created parsed
ParsedTimes ==
    {Unwrap(ParseFromStr(Accepted[i].Created, zone)) :
        i \in {j \in DOMAIN Accepted : IsSome(ParseFromStr(Accepted[j].Created, zone))}}

\* C7: in every state of the fold the two bounds are both absent or both
\* present with earliest <= latest; they are the minimum and the maximum of
\* the timestamps of the accepted messages that parsed; a message that does
\* not parse is counted and leaves the bounds alone; with no accepted message
\* both are absent.
C7_TimeRange ==
    /\ IsSome(stats.earliest_message) <=> IsSome(stats.latest_message)
    /\ stats.total_messages = Len(Accepted)
    /\ IF ParsedTimes = {}
       THEN stats.earliest_message = None /\ stats.latest_message = None
       ELSE /\ IsSome(stats.earliest_message) /\ IsSome(stats.latest_message)
            /\ Unwrap(stats.earliest_message) \in ParsedTimes
            /\ Unwrap(stats.latest_message) \in ParsedTimes
            /\ \A x \in ParsedTimes :
                  Unwrap(stats.earliest_message) <= x /\ x <= Unwrap(stats.latest_message)
            /\ Unwrap(stats.earliest_message) <= Unwrap(stats.latest_message)

\* the later timestamp was folded first and seeded both bounds, the earlier
\* one then lowered earliest_message
C7_Witness ==
    /\ Len(Accepted) = 2
    /\ Accepted[1].Created = Jan3Morning /\ Accepted[2].Created = Jan1Night
    /\ IsSome(stats.earliest_message)
    /\ Unwrap(stats.earliest_message) < Unwrap(stats.latest_message)

\* the day a DateTime<Utc> falls on, in days since 1970-01-01
DateOf(t) == t \div 86400

\* the average is total / days to two decimals: within half a hundredth
IsAverage(avg, total, days) ==
    /\ 2 * (avg * days - 100 * total) <= days
    /\ 2 * (100 * total - avg * days) <= days

Orderings(s) ==
    {[i \in DOMAIN s |-> s[p[i]]] : p \in Permutations(DOMAIN s)}

\* C10: the result of analyze (the Statistics, or the panic) is the same for
\* every order of iterating the conversations, every order of the messages
\* and every grouping of them into conversations: it is the result of the
\* scan of the same messages in any order.
C10_OrderIndependent ==
    pc # "scan" =>
        \A s \in Orderings(AllMessages) : Analyze(s, opt, zone) = Outcome

\* the map gave ConvB before ConvA, and the two messages differ in sender
\* and time
C10_Witness ==
    /\ pc = "returned"
    /\ order = <<ConvB, ConvA>>
    /\ Len(Accepted) = 2
    /\ Accepted[1].From # Accepted[2].From
    /\ IsSome(stats.earliest_message)
    /\ Unwrap(stats.earliest_message) < Unwrap(stats.latest_message)
    /\ ParseFromStr(Accepted[1].Created, zone) = stats.latest_message

====
